---- MODULE Spec2Model ----
(***************************************************************************)
(* html2latex.py: HTML tables to LaTeX longtable environments.             *)
(*                                                                         *)
(* Text is modelled as a sequence of one-character strings.  The output    *)
(* buffer latex_code is the sequence of the pieces the code appends with   *)
(* +=: a piece [t, s] is the literal template t with the interpolated      *)
(* text s (empty for a literal without a hole).                            *)
(*                                                                         *)
(* Four specifications share the variables:                                *)
(*   SpecEscape  escape_latex on bounded strings                           *)
(*   SpecRow     one <tr>: parse_table's cell loop, then row_to_latex      *)
(*   Spec        html_table_to_latex on documents of up to MaxTables       *)
(*               tables                                                    *)
(*   SpecTable   html_table_to_latex on documents of one table of up to    *)
(*               MaxRows rows                                              *)
(***************************************************************************)
EXTENDS Integers, Sequences, FiniteSets, TLC

VARIABLES
    pc,            \* position of the run
    text,          \* escape_latex: the argument
    escaped,       \* escape_latex: the value returned
    rawRow,        \* one <tr>: its <td>/<th> elements
    parsedRow,     \* parse_table's parsed_row for rawRow
    rowLine,       \* row_to_latex(parsedRow)
    tables,        \* soup.find_all("table")
    idx,           \* the loop index of html_table_to_latex (1-based)
    latex_code,    \* the output buffer
    parsed_rows,   \* local of html_table_to_latex
    header_rows,   \* local of html_table_to_latex
    body_rows,     \* local of html_table_to_latex
    num_columns,   \* local of html_table_to_latex
    step,          \* how the last loop iteration ended
    files,         \* what was written to output_tex_file, one entry per write
    printed        \* the messages printed

vars == <<pc, text, escaped, rawRow, parsedRow, rowLine, tables, idx,
          latex_code, parsed_rows, header_rows, body_rows, num_columns,
          step, files, printed>>

escVars == <<text, escaped>>
rowVars == <<rawRow, parsedRow, rowLine>>
docVars == <<tables, idx, latex_code, parsed_rows, header_rows, body_rows,
             num_columns, step, files, printed>>

(***************************************************************************)
(* Bounds.                                                                 *)
(***************************************************************************)
MaxLen == 2
MaxCells == 2
MaxTables == 2
MaxRows == 3

SeqsUpTo(S, n) == UNION {[1..k -> S] : k \in 0..n}

(***************************************************************************)
(* escape_latex                                                            *)
(***************************************************************************)
BS == "\\"

\* The replacements dict, in insertion order (the order .items() iterates).
replacements ==
    << <<BS,  <<BS,"t","e","x","t","b","a","c","k","s","l","a","s","h","{","}">> >>,
       <<"&", <<BS,"&">> >>,
       <<"%", <<BS,"%">> >>,
       <<"$", <<BS,"$">> >>,
       <<"#", <<BS,"#">> >>,
       <<"_", <<BS,"_">> >>,
       <<"{", <<BS,"{">> >>,
       <<"}", <<BS,"}">> >>,
       <<"~", <<BS,"t","e","x","t","a","s","c","i","i","t","i","l","d","e","{","}">> >>,
       <<"^", <<BS,"t","e","x","t","a","s","c","i","i","c","i","r","c","u","m","{","}">> >> >>

\* str.replace(key, value) for a one-character key.
RECURSIVE StrReplace(_, _, _)
StrReplace(s, key, value) ==
    IF s = <<>> THEN <<>>
    ELSE (IF Head(s) = key THEN value ELSE <<Head(s)>>)
         \o StrReplace(Tail(s), key, value)

\* The loop of escape_latex from its k-th replacement on.
RECURSIVE EscapeFrom(_, _)
EscapeFrom(s, k) ==
    IF k > Len(replacements) THEN s
    ELSE EscapeFrom(StrReplace(s, replacements[k][1], replacements[k][2]), k + 1)

escape_latex(s) == EscapeFrom(s, 1)

Reserved == {replacements[k][1] : k \in 1..Len(replacements)}
Alphabet == Reserved \cup {"a"}

IdleEscape == text = <<>> /\ escaped = <<>>
IdleRow == rawRow = <<>> /\ parsedRow = <<>> /\ rowLine = <<>>
IdleDoc ==
    /\ tables = <<>>
    /\ idx = 0
    /\ latex_code = <<>>
    /\ parsed_rows = <<>>
    /\ header_rows = <<>>
    /\ body_rows = <<>>
    /\ num_columns = 0
    /\ step = "none"
    /\ files = <<>>
    /\ printed = <<>>

InitEscape ==
    /\ pc = "escape"
    /\ text \in SeqsUpTo(Alphabet, MaxLen)
    /\ escaped = <<>>
    /\ IdleRow
    /\ IdleDoc

Escape ==
    /\ pc = "escape"
    /\ escaped' = escape_latex(text)
    /\ pc' = "escaped"
    /\ UNCHANGED <<text, rowVars, docVars>>

NextEscape == Escape

SpecEscape == InitEscape /\ [][NextEscape]_vars

(***************************************************************************)
(* parse_table                                                             *)
(*                                                                         *)
(* A <td>/<th> element is [text, colspan, rowspan]: text is what           *)
(* get_text(separator=' ', strip=True) returns, and an attribute is        *)
(* absent, a string int() converts to v, or a string int() rejects.        *)
(***************************************************************************)
Absent == [kind |-> "absent", v |-> 0]
Bad == [kind |-> "bad", v |-> 0]
IntStr(n) == [kind |-> "int", v |-> n]

SpanAttrs == {Absent, Bad, IntStr(-1), IntStr(0), IntStr(1), IntStr(2)}

Td(t, c, r) == [text |-> t, colspan |-> c, rowspan |-> r]

\* int(cell.get(name, 1)) where it returns.
IntAttr(a) == IF a.kind = "int" THEN a.v ELSE 1

\* Mutant of Parses: a span int() rejects is taken as absent.
ParsesLenient(trs) == TRUE

\* int() raises ValueError on no cell of these <tr>s.
Parses(trs) ==
    \A i \in 1..Len(trs) : \A j \in 1..Len(trs[i]) :
        trs[i][j].colspan.kind # "bad" /\ trs[i][j].rowspan.kind # "bad"

ParseCell(c) ==
    [text |-> escape_latex(c.text),
     colspan |-> IntAttr(c.colspan),
     rowspan |-> IntAttr(c.rowspan)]

\* parse_table of an element whose find_all("tr") is trs.
parse_table(trs) ==
    [i \in 1..Len(trs) |-> [j \in 1..Len(trs[i]) |-> ParseCell(trs[i][j])]]

(***************************************************************************)
(* row_to_latex                                                            *)
(***************************************************************************)
Digits == <<"0", "1", "2", "3", "4", "5", "6", "7", "8", "9">>

\* str(n) for an integer n.
RECURSIVE Dec(_)
Dec(n) ==
    IF n < 0 THEN <<"-">> \o Dec(0 - n)
    ELSE IF n < 10 THEN <<Digits[n + 1]>>
    ELSE Dec(n \div 10) \o <<Digits[(n % 10) + 1]>>

\* str.rstrip(chars): drops every trailing character that is in chars.
RECURSIVE RStrip(_, _)
RStrip(s, chars) ==
    IF s # <<>> /\ s[Len(s)] \in chars
    THEN RStrip(SubSeq(s, 1, Len(s) - 1), chars)
    ELSE s

Sep == <<" ", "&", " ">>

\* One cell as row_to_latex writes it, before the " & ".
CellLatex(cell) ==
    IF cell.colspan > 1
    THEN <<BS,"m","u","l","t","i","c","o","l","u","m","n","{">>
         \o Dec(cell.colspan) \o <<"}","{","c","}","{">> \o cell.text \o <<"}">>
    ELSE IF cell.rowspan > 1
    THEN <<BS,"m","u","l","t","i","r","o","w","{">>
         \o Dec(cell.rowspan) \o <<"}","{","*","}","{">> \o cell.text \o <<"}">>
    ELSE cell.text

RECURSIVE RowLatex(_)
RowLatex(row) ==
    IF row = <<>> THEN <<>>
    ELSE CellLatex(Head(row)) \o Sep \o RowLatex(Tail(row))

row_to_latex(row) ==
    RStrip(RowLatex(row), {" ", "&"}) \o <<" ", BS, BS>> \o <<"\n">>

RowTexts == {<<>>, <<"a">>, <<"a", "&">>}
RawCells == {Td(t, c, r) : t \in RowTexts, c \in SpanAttrs, r \in SpanAttrs}

InitRow ==
    /\ pc = "row"
    /\ rawRow \in SeqsUpTo(RawCells, MaxCells)
    /\ parsedRow = <<>>
    /\ rowLine = <<>>
    /\ IdleEscape
    /\ IdleDoc

\* parse_table's inner loop over the cells of one <tr>.
ParseRow ==
    /\ pc = "row"
    /\ Parses(<<rawRow>>)
    /\ parsedRow' = parse_table(<<rawRow>>)[1]
    /\ pc' = "parsed"
    /\ UNCHANGED <<rawRow, rowLine, escVars, docVars>>

ParseRowRaises ==
    /\ pc = "row"
    /\ ~Parses(<<rawRow>>)
    /\ pc' = "raised"
    /\ UNCHANGED <<rowVars, escVars, docVars>>

RowToLatex ==
    /\ pc = "parsed"
    /\ rowLine' = row_to_latex(parsedRow)
    /\ pc' = "rendered"
    /\ UNCHANGED <<rawRow, parsedRow, escVars, docVars>>

NextRow == ParseRow \/ ParseRowRaises \/ RowToLatex

SpecRow == InitRow /\ [][NextRow]_vars

(***************************************************************************)
(* html_table_to_latex                                                     *)
(*                                                                         *)
(* A <table> element is [caption, thead, rows]: caption is the text of its *)
(* first <caption> (present or not), rows its find_all("tr") in document   *)
(* order, and thead its first <thead>, which holds the count rows from     *)
(* row first on (count = 0: a <thead> without a <tr>).                     *)
(***************************************************************************)
Piece(t, s) == [t |-> t, s |-> s]
Lit(t) == Piece(t, <<>>)

HLine == Lit("\\hline\n")
BeginT == "\\begin{longtable}{%s}\n"
EndFirstHeadT == "\\endfirsthead\n"
EndHeadT == "\\endhead\n"
EndFootT == "\\endfoot\n"
EndT == "\\end{longtable}\n"
CaptionT == "\\captionof{table}{%s}\n"
LabelT == "\\label{tab:table%s}\n"
EndDocument == Lit("\\end{document}")

Preamble ==
    << Lit("\\documentclass{article}\n"),
       Lit("\\usepackage[utf8]{inputenc}\n"),
       Lit("\\usepackage{hyperref}\n"),
       Lit("\\usepackage{graphicx}\n"),
       Lit("\\usepackage{float}\n"),
       Lit("\\usepackage[margin=1in]{geometry}\n"),
       Lit("\\usepackage{longtable}\n"),
       Lit("\\usepackage{multirow}\n"),
       Lit("\\usepackage{array}\n"),
       Lit("\\usepackage{caption}  % for \\captionof\n"),
       Lit("\\renewcommand{\\arraystretch}{1.2}\n"),
       Lit("\\begin{document}\n") >>

NoCaption == [present |-> FALSE, text |-> <<>>]
Caption(t) == [present |-> TRUE, text |-> t]
NoThead == [present |-> FALSE, first |-> 0, count |-> 0]
Thead(f, c) == [present |-> TRUE, first |-> f, count |-> c]
Table(c, h, rs) == [caption |-> c, thead |-> h, rows |-> rs]

\* thead.find_all("tr")
TheadTrs(table) ==
    SubSeq(table.rows, table.thead.first,
           table.thead.first + table.thead.count - 1)

\* Lines 93-97: the caption and the label of the idx-th table.
CaptionPieces(table, i) ==
    IF table.caption.present
    THEN << Piece(CaptionT, escape_latex(table.caption.text)),
            Piece(LabelT, Dec(i)) >>
    ELSE <<>>

\* Lines 107-114.
HeaderRows(table, rows) ==
    IF table.thead.present THEN parse_table(TheadTrs(table)) ELSE <<rows[1]>>

BodyRows(table, rows) ==
    IF table.thead.present
    THEN SubSeq(rows, Len(parse_table(TheadTrs(table))) + 1, Len(rows))
    ELSE Tail(rows)

\* Lines 117-119.
RECURSIVE SumColspan(_)
SumColspan(row) ==
    IF row = <<>> THEN 0 ELSE Head(row).colspan + SumColspan(Tail(row))

\* Thousandths in f"{0.95 / n:.3f}" for n >= 1: the decimal nearest to the
\* binary64 quotient.  The literal 0.95 is stored as 0.94999999999999995559,
\* so the quotient is never a decimal tie; where 950/n is one (n = 4, 20, 76,
\* 100, 380, 1900) the quotient lies above it for n = 20, 380, 1900 and below
\* it for the others.
TieUp == {20, 380, 1900}
Thousandths(n) ==
    LET q == 950 \div n
        r == 950 % n
    IN  IF 2 * r > n \/ (2 * r = n /\ n \in TieUp) THEN q + 1 ELSE q

\* "0.ddd"
Fmt3(m) ==
    <<"0", ".">> \o <<Digits[(m \div 100) + 1], Digits[((m \div 10) % 10) + 1],
                     Digits[(m % 10) + 1]>>

ColumnEntry(m) ==
    <<"p", "{">> \o Fmt3(m)
    \o <<BS, "t", "e", "x", "t", "w", "i", "d", "t", "h", "}">>

\* " ".join of k entries
RECURSIVE JoinEntries(_, _)
JoinEntries(m, k) ==
    IF k <= 0 THEN <<>>
    ELSE IF k = 1 THEN ColumnEntry(m)
    ELSE ColumnEntry(m) \o <<" ">> \o JoinEntries(m, k - 1)

\* Lines 123-126 (range(n) is empty for n < 0).
column_format(n) == IF n > 0 THEN JoinEntries(Thousandths(n), n) ELSE <<>>

\* Lines 129-134.
LongtableOpen(n) ==
    << Lit("\\setlength\\LTleft{0pt}\n"),
       Lit("\\setlength\\LTright{0pt}\n"),
       Piece(BeginT, column_format(n)),
       HLine >>

RowPiece(row) == Piece("%s", row_to_latex(row))

\* Lines 152-156.
RECURSIVE FirstHead(_)
FirstHead(hs) ==
    IF hs = <<>> THEN <<>>
    ELSE IF Len(hs) = 1 THEN <<RowPiece(hs[1])>>
    ELSE <<RowPiece(hs[1]), HLine>> \o FirstHead(Tail(hs))

\* Mutant of RepeatHead: only the first header row is repeated.
RepeatHeadFirstOnly(hs) ==
    IF hs = <<>> THEN <<>> ELSE <<RowPiece(hs[1]), HLine>>

\* Lines 163-165.
RECURSIVE RepeatHead(_)
RepeatHead(hs) ==
    IF hs = <<>> THEN <<>>
    ELSE <<RowPiece(hs[1]), HLine>> \o RepeatHead(Tail(hs))

\* Mutant of BodyPart: a rule after every body row, the last one too.
RECURSIVE BodyPartRuleAfterEach(_)
BodyPartRuleAfterEach(bs) ==
    IF bs = <<>> THEN <<>>
    ELSE <<RowPiece(bs[1]), HLine>> \o BodyPartRuleAfterEach(Tail(bs))

\* Lines 172-176.
RECURSIVE BodyPart(_)
BodyPart(bs) ==
    IF bs = <<>> THEN <<>>
    ELSE IF Len(bs) = 1 THEN <<RowPiece(bs[1])>>
    ELSE <<RowPiece(bs[1]), HLine>> \o BodyPart(Tail(bs))

\* Lines 129-182: what one table that is laid out adds to latex_code.
TableBlock(hs, bs, n) ==
    LongtableOpen(n)
    \o FirstHead(hs)
    \o <<Lit(EndFirstHeadT), HLine>>
    \o RepeatHead(hs)
    \o <<Lit(EndHeadT)>>
    \o <<Lit(EndFootT)>>
    \o BodyPart(bs)
    \o <<HLine>>
    \o <<Lit(EndT)>>

Msg(m, n) == [msg |-> m, n |-> n]

(***************************************************************************)
(* The documents.                                                          *)
(***************************************************************************)
P(t) == Td(t, Absent, Absent)
C(t, n) == Td(t, IntStr(n), Absent)

\* The <tr>s the tables are made of.
Rows ==
    { <<>>,
      <<P(<<"a">>), P(<<"b">>)>>,
      <<C(<<"a">>, 2), C(<<"b">>, 2)>>,
      <<C(<<"a">>, 2), P(<<"b">>), C(<<"a">>, 3)>>,
      <<C(<<"a">>, 0)>>,
      <<C(<<"a">>, -1)>>,
      <<P(<<"a">>), Td(<<"b">>, Bad, Absent)>>,
      <<Td(<<"a">>, IntStr(2), Bad)>> }

Captions == {NoCaption, Caption(<<"T", "&">>)}

\* The <thead>s a table of n rows can have: none, one without a <tr>, one
\* around count >= 1 consecutive rows.
Theads(n) ==
    {NoThead, Thead(1, 0)}
    \cup {Thead(q[1], q[2]) :
            q \in {r \in (1..n) \X (1..n) : r[1] + r[2] - 1 <= n}}

TablesOf(maxRows) ==
    UNION { {Table(c, h, rs) : c \in Captions, h \in Theads(Len(rs))} :
            rs \in SeqsUpTo(Rows, maxRows) }

RAB == <<P(<<"a">>), P(<<"b">>)>>
R22 == <<C(<<"a">>, 2), C(<<"b">>, 2)>>
R213 == <<C(<<"a">>, 2), P(<<"b">>), C(<<"a">>, 3)>>
WithCaption == Caption(<<"T", "&">>)

\* The tables the documents of several tables are made of.
DocTables ==
    TablesOf(1)
    \cup { Table(WithCaption, NoThead, <<RAB, R22, R213>>),
           Table(NoCaption, Thead(1, 2), <<R213, RAB, R22>>),
           Table(WithCaption, Thead(2, 1), <<RAB, R213>>) }

InitDoc(doc) ==
    /\ pc = "start"
    /\ tables = doc
    /\ idx = 0
    /\ latex_code = <<>>
    /\ parsed_rows = <<>>
    /\ header_rows = <<>>
    /\ body_rows = <<>>
    /\ num_columns = 0
    /\ step = "none"
    /\ files = <<>>
    /\ printed = <<>>
    /\ IdleEscape
    /\ IdleRow

\* Documents of up to MaxTables tables.
Init == \E k \in 0..MaxTables : \E doc \in [1..k -> DocTables] : InitDoc(doc)

\* Documents of no table or of one table of up to MaxRows rows.
InitTable ==
    \/ InitDoc(<<>>)
    \/ \E k \in 0..MaxRows : \E rs \in [1..k -> Rows] :
         \E c \in Captions : \E h \in Theads(k) : InitDoc(<<Table(c, h, rs)>>)

\* Lines 64-69: no <table> in the document.
NoTables ==
    /\ pc = "start"
    /\ tables = <<>>
    /\ printed' = Append(printed, Msg("No tables found in the HTML content.", 0))
    /\ pc' = "returned"
    /\ UNCHANGED <<tables, idx, latex_code, parsed_rows, header_rows,
                   body_rows, num_columns, step, files, escVars, rowVars>>

\* Lines 64-84: the preamble.
StartDocument ==
    /\ pc = "start"
    /\ tables # <<>>
    /\ latex_code' = Preamble
    /\ pc' = "loop"
    /\ UNCHANGED <<tables, idx, parsed_rows, header_rows, body_rows,
                   num_columns, step, files, printed, escVars, rowVars>>

\* The table of the next iteration, and latex_code when parse_table is
\* called for it (lines 90-97).
NextTable == tables[idx + 1]
AfterCaption == latex_code \o <<Lit("\n")>> \o CaptionPieces(NextTable, idx + 1)

InLoop == pc = "loop" /\ idx < Len(tables)

\* Line 100: int() raises in parse_table.
RaiseValueError ==
    /\ InLoop
    /\ ~Parses(NextTable.rows)
    /\ latex_code' = AfterCaption
    /\ step' = "ValueError"
    /\ pc' = "raised"
    /\ UNCHANGED <<tables, idx, parsed_rows, header_rows, body_rows,
                   num_columns, files, printed, escVars, rowVars>>

\* Lines 102-104: a table without a <tr>.
SkipTable ==
    /\ InLoop
    /\ Parses(NextTable.rows)
    /\ parse_table(NextTable.rows) = <<>>
    /\ latex_code' = AfterCaption
    /\ parsed_rows' = <<>>
    /\ printed' = Append(printed, Msg("Warning: Table has no rows.", idx + 1))
    /\ idx' = idx + 1
    /\ step' = "skipped"
    /\ UNCHANGED <<pc, tables, header_rows, body_rows, num_columns, files,
                   escVars, rowVars>>

\* Line 118: header_rows[0] of an empty header_rows.
RaiseIndexError ==
    /\ InLoop
    /\ Parses(NextTable.rows)
    /\ LET rows == parse_table(NextTable.rows) IN
        /\ rows # <<>>
        /\ HeaderRows(NextTable, rows) = <<>>
        /\ parsed_rows' = rows
        /\ header_rows' = HeaderRows(NextTable, rows)
        /\ body_rows' = BodyRows(NextTable, rows)
    /\ num_columns' = 0
    /\ latex_code' = AfterCaption
    /\ step' = "IndexError"
    /\ pc' = "raised"
    /\ UNCHANGED <<tables, idx, files, printed, escVars, rowVars>>

\* Line 123: TOTAL_WIDTH_PERCENT / 0.
RaiseZeroDivisionError ==
    /\ InLoop
    /\ Parses(NextTable.rows)
    /\ LET rows == parse_table(NextTable.rows) IN
        /\ rows # <<>>
        /\ HeaderRows(NextTable, rows) # <<>>
        /\ SumColspan(HeaderRows(NextTable, rows)[1]) = 0
        /\ parsed_rows' = rows
        /\ header_rows' = HeaderRows(NextTable, rows)
        /\ body_rows' = BodyRows(NextTable, rows)
    /\ num_columns' = 0
    /\ latex_code' = AfterCaption
    /\ step' = "ZeroDivisionError"
    /\ pc' = "raised"
    /\ UNCHANGED <<tables, idx, files, printed, escVars, rowVars>>

\* Lines 90-182: a table that is laid out.
EmitTable ==
    /\ InLoop
    /\ Parses(NextTable.rows)
    /\ LET rows == parse_table(NextTable.rows) IN
        /\ rows # <<>>
        /\ HeaderRows(NextTable, rows) # <<>>
        /\ SumColspan(HeaderRows(NextTable, rows)[1]) # 0
        /\ parsed_rows' = rows
        /\ header_rows' = HeaderRows(NextTable, rows)
        /\ body_rows' = BodyRows(NextTable, rows)
    /\ num_columns' = SumColspan(header_rows'[1])
    /\ latex_code' = AfterCaption \o TableBlock(header_rows', body_rows', num_columns')
    /\ idx' = idx + 1
    /\ step' = "emitted"
    /\ UNCHANGED <<pc, tables, files, printed, escVars, rowVars>>

\* Lines 184-191: after the loop.
Finish ==
    /\ pc = "loop"
    /\ idx = Len(tables)
    /\ latex_code' = Append(latex_code, EndDocument)
    /\ files' = Append(files, latex_code')
    /\ printed' = Append(printed, Msg("LaTeX tables have been saved to", 0))
    /\ pc' = "written"
    /\ UNCHANGED <<tables, idx, parsed_rows, header_rows, body_rows,
                   num_columns, step, escVars, rowVars>>

Next ==
    \/ NoTables
    \/ StartDocument
    \/ RaiseValueError
    \/ SkipTable
    \/ RaiseIndexError
    \/ RaiseZeroDivisionError
    \/ EmitTable
    \/ Finish

Spec == Init /\ [][Next]_vars

SpecTable == InitTable /\ [][Next]_vars

(***************************************************************************)
(* Properties.                                                             *)
(***************************************************************************)

\* The listed LaTeX equivalent of one character.
Equivalent(c) ==
    IF c \in Reserved
    THEN replacements[CHOOSE k \in 1..Len(replacements) : replacements[k][1] = c][2]
    ELSE <<c>>

RECURSIVE PerCharacter(_)
PerCharacter(s) ==
    IF s = <<>> THEN <<>> ELSE Equivalent(Head(s)) \o PerCharacter(Tail(s))

\* C1: escape_latex returns the per-character substitution of its input: each
\* reserved character is replaced by its listed equivalent and nothing a
\* replacement introduced is escaped again.
C1_PerCharacterSubstitution ==
    pc = "escaped" => escaped = PerCharacter(text)

\* The pieces a step appended to latex_code.
Appended == SubSeq(latex_code', Len(latex_code) + 1, Len(latex_code'))

\* C2: a table without a <tr> is skipped: the step adds no caption line, no
\* label line and no longtable block to the output, and the loop goes on.
C2_SkippedTableAddsNothing ==
    [][(step' = "skipped" /\ idx' = idx + 1)
        => /\ \A i \in 1..Len(Appended) :
                Appended[i].t \notin {CaptionT, LabelT, BeginT}
           /\ pc' = "loop"]_vars

\* The table of the last iteration.
Current == IF pc = "raised" THEN tables[idx + 1] ELSE tables[idx]
Partitioned == step \in {"emitted", "IndexError", "ZeroDivisionError"}

\* C3: for a table that reaches layout, header_rows is non-empty and
\* header_rows followed by body_rows is the row sequence parse_table returned;
\* without <thead> the header is row 0 and the body the rest, with <thead>
\* the header is the rows inside it and the body the scan less its first
\* len(header_rows) rows.
C3_Partition ==
    Partitioned =>
        /\ parsed_rows = parse_table(Current.rows)
        /\ header_rows # <<>>
        /\ header_rows \o body_rows = parsed_rows
        /\ ~Current.thead.present =>
              header_rows = <<parsed_rows[1]>> /\ body_rows = Tail(parsed_rows)
        /\ Current.thead.present =>
              /\ header_rows = parse_table(TheadTrs(Current))
              /\ body_rows = SubSeq(parsed_rows, Len(header_rows) + 1, Len(parsed_rows))

HasBadSpan ==
    \E i \in 1..Len(tables) : \E j \in 1..Len(tables[i].rows) :
        \E k \in 1..Len(tables[i].rows[j]) :
            \/ tables[i].rows[j][k].colspan.kind = "bad"
            \/ tables[i].rows[j][k].rowspan.kind = "bad"

Ended == pc \in {"returned", "raised", "written"}

\* C4: the output file is written at most once and only after every table
\* was processed; a run without a <table> returns with a notice and writes
\* nothing; a run with a non-integer colspan or rowspan in any cell never
\* writes, and ends only by the failure.
C4_WriteOnceAtEnd ==
    /\ Len(files) <= 1
    /\ files # <<>> => pc = "written" /\ idx = Len(tables) /\ tables # <<>>
    /\ pc = "written" => files = <<latex_code>>
    /\ (tables = <<>> /\ pc # "start") =>
          /\ pc = "returned"
          /\ files = <<>>
          /\ printed = <<Msg("No tables found in the HTML content.", 0)>>
    /\ HasBadSpan => files = <<>> /\ (Ended => pc = "raised")

C4_Witness ==
    /\ pc = "raised"
    /\ step = "ValueError"
    /\ idx >= 1
    /\ \E i \in 1..Len(latex_code) : latex_code[i].t = EndT
    /\ files = <<>>

RECURSIVE JoinCells(_)
JoinCells(row) ==
    IF Len(row) = 1 THEN CellLatex(row[1])
    ELSE CellLatex(row[1]) \o Sep \o JoinCells(Tail(row))

\* C5: row_to_latex of n >= 1 cells is the rendered cells in order joined
\* with " & ", then " \\" and a line break: n cells, n - 1 separators.
C5_CellsJoined ==
    (pc = "rendered" /\ Len(parsedRow) >= 1)
        => rowLine = JoinCells(parsedRow) \o <<" ", BS, BS, "\n">>

\* C6: every cell of parse_table has colspan >= 1 and rowspan >= 1, and an
\* absent attribute gives 1.
C6_SpansPositive ==
    pc \in {"parsed", "rendered"} =>
        \A j \in 1..Len(parsedRow) :
            /\ parsedRow[j].colspan >= 1
            /\ parsedRow[j].rowspan >= 1
            /\ rawRow[j].colspan = Absent => parsedRow[j].colspan = 1
            /\ rawRow[j].rowspan = Absent => parsedRow[j].rowspan = 1

\* Where the last piece of template t is in latex_code.
LastPos(t) ==
    CHOOSE i \in 1..Len(latex_code) :
        /\ latex_code[i].t = t
        /\ \A j \in (i + 1)..Len(latex_code) : latex_code[j].t # t

\* 0.95 / n to three decimals, in thousandths.
Rounded(n) == (1900 + n) \div (2 * n)

\* C7: num_columns is the sum of the colspans of the first header row, and
\* the column spec is num_columns entries p{w\textwidth} with
\* w = 0.95 / num_columns rounded to 3 decimals.
C7_ColumnSpec ==
    (pc = "loop" /\ step = "emitted") =>
        /\ num_columns = SumColspan(header_rows[1])
        /\ num_columns >= 1
        /\ latex_code[LastPos(BeginT)].s
              = JoinEntries(Rounded(num_columns), num_columns)

Count(out, t) == Cardinality({i \in 1..Len(out) : out[i].t = t})

\* Where the j-th piece of template t is in out.
Pos(out, t, j) ==
    CHOOSE i \in 1..Len(out) :
        out[i].t = t /\ Cardinality({m \in 1..i : out[m].t = t}) = j

IsRowPiece(p) == p.t = "%s"
IsMarker(p) == p.t \in {BeginT, EndFirstHeadT, EndHeadT, EndFootT, EndT}
MarkerOrder == <<BeginT, EndFirstHeadT, EndHeadT, EndFootT, EndT>>

\* The row lines strictly between positions a and b of out.
RowsBetween(out, a, b) == SelectSeq(SubSeq(out, a + 1, b - 1), IsRowPiece)

HasRows(table) == table.rows # <<>>

\* C8: a written document is the preamble, one longtable block for each
\* table with a <tr>, in source order, and \end{document} last; the markers
\* of the blocks occur in the order begin, endfirsthead, endhead, endfoot,
\* end, once per block; every header row is emitted twice, in the same
\* order, before \endfirsthead and between \endfirsthead and \endhead.
C8_DocumentStructure ==
    pc = "written" =>
        LET out == files[1]
            src == SelectSeq(tables, HasRows)
            marks == SelectSeq(out, IsMarker)
        IN  /\ SubSeq(out, 1, Len(Preamble)) = Preamble
            /\ out[Len(out)] = EndDocument
            /\ Count(out, EndDocument.t) = 1
            /\ Len(marks) = 5 * Len(src)
            /\ \A m \in 1..Len(marks) : marks[m].t = MarkerOrder[((m - 1) % 5) + 1]
            /\ \A j \in 1..Len(src) :
                LET hs == HeaderRows(src[j], parse_table(src[j].rows))
                    want == [i \in 1..Len(hs) |-> RowPiece(hs[i])]
                IN  /\ RowsBetween(out, Pos(out, BeginT, j),
                                   Pos(out, EndFirstHeadT, j)) = want
                    /\ RowsBetween(out, Pos(out, EndFirstHeadT, j),
                                   Pos(out, EndHeadT, j)) = want

C8_Witness ==
    /\ pc = "written"
    /\ Len(tables) = 2
    /\ ~HasRows(tables[1])
    /\ tables[2].thead.count = 2
    /\ Count(files[1], BeginT) = 1

\* C9: between \endfoot and \end{longtable} there are exactly len(body_rows)
\* row lines, in body_rows order, one \hline between consecutive body rows
\* and one final \hline right before \end{longtable}.
C9_BodySection ==
    (pc = "loop" /\ step = "emitted") =>
        LET seg == SubSeq(latex_code, LastPos(EndFootT) + 1, Len(latex_code))
            n == Len(body_rows)
        IN  /\ Len(seg) = IF n = 0 THEN 2 ELSE 2 * n + 1
            /\ \A i \in 1..n : seg[2 * i - 1] = RowPiece(body_rows[i])
            /\ \A i \in 1..(n - 1) : seg[2 * i] = HLine
            /\ seg[Len(seg) - 1] = HLine
            /\ seg[Len(seg)] = Lit(EndT)
            /\ Len(SelectSeq(seg, IsRowPiece)) = n

C9_Witness ==
    /\ pc = "loop"
    /\ step = "emitted"
    /\ Len(body_rows) >= 2
    /\ body_rows[1] # body_rows[2]

\* C10: every table with a <tr> whose spans parse is laid out without a
\* failure: header_rows[0] exists and num_columns >= 1 at the division.
C10_LayoutCompletes ==
    /\ step \notin {"IndexError", "ZeroDivisionError"}
    /\ step = "emitted" => num_columns >= 1

====
